---- MODULE Spec2Model ----
\* The reverse Turing test server (src/server.js), its model-call layer and the
\* bundled browser client (src/public/app.js) as a state machine.
\*
\*  - Texts that the code only passes around (questions, answers) are opaque
\*    strings.  The judge's verdict reply, which the code rewrites and parses,
\*    is a sequence of characters over a small alphabet: the backtick, the
\*    letters "jso" and "n" of the fence tag, newline, space, a prose
\*    character, and atoms that each stand for one complete JSON document.
\*  - A missing JSON key / JavaScript undefined is the value Absent.
\*  - A request is handled in a slot of req; every await of the handler is a
\*    pc value, and the model call it waits for is the slot's pending call.
EXTENDS Integers, Sequences, FiniteSets, TLC

VARIABLES
    recentFirstQuestions,   \* server.js: the process-wide recent-questions buffer
    req,                    \* the request handlers in flight, one per slot
    client,                 \* app.js: the browser's state object and screen
    recorded,               \* history variable: every question ever recorded, in order
    llm                     \* the model-call layer: its environment settings and the call in progress

vars == <<recentFirstQuestions, req, client, recorded, llm>>

-----------------------------------------------------------------------------
\* Bounds of the model and constants of the program

MaxHist == 4        \* longest history an /api/answer body carries
MaxRound == 4       \* largest round number an /api/answer body carries
MaxStarts == 6      \* /api/start requests recorded in one behaviour of SpecStart
MaxGames == 2       \* games the bundled client starts in one behaviour of SpecGame
MaxAnswers == 4     \* answers the player submits in one game of SpecGame
MaxTemperature == 20    \* largest temperature setting of SpecChat, in tenths

RECENT_QUESTIONS_MAX == 5
FinalRound == 3         \* `round >= 3`
InterviewRounds == 3    \* `for (let i = 0; i < 3; i++)`
FirstRound == 1         \* `round: 1` of the /api/start response
DefaultTemperature == 7 \* `|| 0.7`, in tenths
AnthropicCap == 10      \* `Math.min(temperature, 1.0)`, in tenths

Absent == "absent"

Questions == {"q1", "q2"}                 \* follow-up questions the judge may ask
OpeningQuestions == {"o1", "o2", "o3", "o4", "o5", "o6"}
HumanAnswers == {"h1"}                    \* what the player may type
AiAnswers == {"r1"}                       \* what the respondent model may reply
\* The bodies of Spec, which are arbitrary:
HistoryAnswers == {Absent, "h1"}          \* the answer of a round already in a body
BodyAnswers == {"h2"}                     \* the humanAnswer of a body
\* The opening questions of the specifications with a client or with
\* concurrent requests:
FewOpeningQuestions == {"o1", "o2"}

QLabel == <<"Q1", "Q2", "Q3", "Q4", "Q5", "Q6", "Q7", "Q8">>

-----------------------------------------------------------------------------
\* Verdict texts: the characters, the JSON documents and the replies considered

BT == "BT"      \* one backtick character
NL == "NL"
SP == "SP"

NoVerdict ==
    [type |-> "none", keys |-> {}, humanIs |-> Absent,
     analysisA |-> <<>>, analysisB |-> <<>>, summary |-> <<>>]

VerdictObject(label) ==
    [type |-> "object", keys |-> {"humanIs", "analysisA", "analysisB", "summary"},
     humanIs |-> label,
     analysisA |-> <<"a">>, analysisB |-> <<"b">>, summary |-> <<"s">>]

\* What JSON.parse returns for each document atom.
JsonValue(atom) ==
    CASE atom = "{A}" -> VerdictObject("A")
      [] atom = "{B}" -> VerdictObject("B")
      [] atom = "{C}" -> VerdictObject("C")
      [] atom = "{A~}" ->
            [VerdictObject("A") EXCEPT !.analysisA = <<"b">>, !.analysisB = <<"a">>]
      [] atom = "{B~}" ->
            [VerdictObject("B") EXCEPT !.analysisA = <<"b">>, !.analysisB = <<"a">>]
      [] atom = "{C~}" ->
            [VerdictObject("C") EXCEPT !.analysisA = <<"b">>, !.analysisB = <<"a">>]
      [] atom = "{}" ->
            [type |-> "object", keys |-> {}, humanIs |-> Absent,
             analysisA |-> <<>>, analysisB |-> <<>>, summary |-> <<>>]
      [] atom = "null" ->
            [type |-> "null", keys |-> {}, humanIs |-> Absent,
             analysisA |-> <<>>, analysisB |-> <<>>, summary |-> <<>>]

JsonAtoms == {"{A}", "{B}", "{C}", "{A~}", "{B~}", "{C~}", "{}", "null"}

VerdictReplies ==
    { <<"{A}">>,
      <<"{B}">>,
      <<BT, BT, BT, "jso", "n", NL, "{A}", NL, BT, BT, BT>>,
      <<BT, BT, BT, NL, "{B}", NL, BT, BT, BT>>,
      <<"x", SP, "{A}">>,
      <<BT, BT, BT, "x", BT, BT, BT>>,
      <<>>,
      <<"{C}">>,
      <<"{}">>,
      <<SP, "null", NL>> }

\* verdictRaw.replace(/BT BT BT json?\n?/g, ""): three backticks, "jso", an
\* optional "n" and an optional newline, removed left to right
RECURSIVE StripJsonFences(_)
StripJsonFences(t) ==
    IF t = <<>> THEN <<>>
    ELSE IF /\ Len(t) >= 4
            /\ t[1] = BT /\ t[2] = BT /\ t[3] = BT /\ t[4] = "jso"
         THEN LET k1 == IF Len(t) >= 5 /\ t[5] = "n" THEN 5 ELSE 4
                  k2 == IF Len(t) >= k1 + 1 /\ t[k1 + 1] = NL THEN k1 + 1 ELSE k1
              IN  StripJsonFences(SubSeq(t, k2 + 1, Len(t)))
         ELSE <<t[1]>> \o StripJsonFences(Tail(t))

\* a cleaning that leaves plain fences in place
StripFences_Keep(t) == t

\* .replace(/BT BT BT/g, ""): every run of three backticks, left to right
RECURSIVE StripFences(_)
StripFences(t) ==
    IF t = <<>> THEN <<>>
    ELSE IF Len(t) >= 3 /\ t[1] = BT /\ t[2] = BT /\ t[3] = BT
         THEN StripFences(SubSeq(t, 4, Len(t)))
         ELSE <<t[1]>> \o StripFences(Tail(t))

IsSpace(c) == c \in {NL, SP}

\* .trim()
RECURSIVE Trim(_)
Trim(t) ==
    IF t = <<>> THEN <<>>
    ELSE IF IsSpace(t[1]) THEN Trim(Tail(t))
    ELSE IF IsSpace(t[Len(t)]) THEN Trim(SubSeq(t, 1, Len(t) - 1))
    ELSE t

Cleaned(verdictRaw) == Trim(StripFences(StripJsonFences(verdictRaw)))

\* JSON.parse succeeds exactly on one complete document.
Parses(cleaned) == Len(cleaned) = 1 /\ cleaned[1] \in JsonAtoms

\* a fallback that always names A as the human
FallbackVerdict_AlwaysA(humanLabel, verdictRaw) ==
    [type |-> "object", keys |-> {"humanIs", "analysisA", "analysisB", "summary"},
     humanIs |-> "A",
     analysisA |-> verdictRaw, analysisB |-> <<>>, summary |-> <<>>]

\* a fallback that files the raw text under the other analysis field
FallbackVerdict_RawInB(humanLabel, verdictRaw) ==
    [type |-> "object", keys |-> {"humanIs", "analysisA", "analysisB", "summary"},
     humanIs |-> humanLabel,
     analysisA |-> <<>>, analysisB |-> verdictRaw, summary |-> <<>>]

FallbackVerdict(humanLabel, verdictRaw) ==
    [type |-> "object", keys |-> {"humanIs", "analysisA", "analysisB", "summary"},
     humanIs |-> humanLabel,
     analysisA |-> verdictRaw, analysisB |-> <<>>, summary |-> <<>>]

\* The try/catch around JSON.parse.
ParseVerdict(verdictRaw, humanLabel) ==
    IF Parses(Cleaned(verdictRaw))
    THEN JsonValue(Cleaned(verdictRaw)[1])
    ELSE FallbackVerdict(humanLabel, verdictRaw)

-----------------------------------------------------------------------------
\* Rounds, histories and request bodies

Round(q, a) == [question |-> q, answer |-> a]

RoundsIn == { Round(q, a) : q \in Questions, a \in HistoryAnswers }

Histories == UNION { [1..n -> RoundsIn] : n \in 0..MaxHist }

\* historyPresent = FALSE is a body without a history key.
Bodies ==
    { [humanAnswer |-> a, round |-> k, history |-> h, historyPresent |-> TRUE] :
        a \in BodyAnswers, k \in 1..MaxRound, h \in Histories }
    \cup
    { [humanAnswer |-> a, round |-> k, history |-> <<>>, historyPresent |-> FALSE] :
        a \in BodyAnswers, k \in 1..MaxRound }

NoBody == [humanAnswer |-> Absent, round |-> 0, history |-> <<>>, historyPresent |-> FALSE]

-----------------------------------------------------------------------------
\* Messages and model calls

Msg(role, kind, body) == [role |-> role, kind |-> kind, body |-> body]

\* "Begin the interview. Ask your first question."
BeginMsg == Msg("user", "begin", <<>>)
\* the judge's own question, as an assistant turn
QuestionMsg(q) == Msg("assistant", "question", <<q>>)
\* `Respondent's answer: ${answer}\n\nAsk your next question.`
AnswerMsg(a) == Msg("user", "answer", <<a>>)
\* the single message of a respondent call
AskMsg(q) == Msg("user", "ask", <<q>>)

Call(role, prompt, messages) == [role |-> role, prompt |-> prompt, messages |-> messages]
NoCall == Call("none", "none", <<>>)

\* buildOpeningMessage: the begin text, followed by the recent questions if any
buildOpeningMessage(recent) == Msg("user", "begin", recent)

\* a message list that leaves the answers out
buildInterviewTurns_QuestionsOnly(transcript) ==
    [k \in 1..Len(transcript) |-> QuestionMsg(transcript[k].question)]

RECURSIVE buildInterviewTurns(_)
buildInterviewTurns(transcript) ==
    IF transcript = <<>> THEN <<>>
    ELSE <<QuestionMsg(transcript[1].question)>>
         \o (IF transcript[1].answer # Absent
             THEN <<AnswerMsg(transcript[1].answer)>> ELSE <<>>)
         \o buildInterviewTurns(Tail(transcript))

buildInterviewMessages(transcript) == <<BeginMsg>> \o buildInterviewTurns(transcript)

RECURSIVE formatRounds(_, _, _)
formatRounds(label, transcript, i) ==
    IF i > Len(transcript) THEN <<>>
    ELSE <<QLabel[i], transcript[i].question, label, transcript[i].answer>>
         \o formatRounds(label, transcript, i + 1)

formatTranscript(label, transcript) == formatRounds(label, transcript, 1)

\* a verdict message with the two transcripts under each other's label
VerdictMsg_Swapped(transcriptA, transcriptB) ==
    Msg("user", "verdict",
        <<"--- Respondent A ---">> \o formatTranscript("A", transcriptB)
        \o <<"--- Respondent B ---">> \o formatTranscript("B", transcriptA))

VerdictMsg(transcriptA, transcriptB) ==
    Msg("user", "verdict",
        <<"--- Respondent A ---">> \o formatTranscript("A", transcriptA)
        \o <<"--- Respondent B ---">> \o formatTranscript("B", transcriptB))

-----------------------------------------------------------------------------
\* Responses

NoResponse ==
    [status |-> 0, keys |-> {}, question |-> Absent, round |-> 0, history |-> <<>>,
     verdict |-> NoVerdict, humanTranscript |-> <<>>, aiTranscript |-> <<>>,
     humanLabel |-> Absent, error |-> Absent]

StartError == "Failed to start game. Check your LLM configuration."
AnswerError == "Something went wrong. Try again."

ErrorResponse(message) ==
    [NoResponse EXCEPT !.status = 500, !.keys = {"error"}, !.error = message]

StartResponse(question) ==
    [NoResponse EXCEPT !.status = 200, !.keys = {"question", "round"},
                       !.question = question, !.round = FirstRound]

\* a response that echoes the round of the request
NextResponse_SameRound(question, round, history) ==
    [NoResponse EXCEPT !.status = 200, !.keys = {"question", "round", "history"},
                       !.question = question, !.round = round, !.history = history]

NextResponse(question, round, history) ==
    [NoResponse EXCEPT !.status = 200, !.keys = {"question", "round", "history"},
                       !.question = question, !.round = round + 1, !.history = history]

\* a final response that also carries a round
FinalResponse_WithRound(verdict, humanTranscript, aiTranscript, humanLabel) ==
    [NoResponse EXCEPT !.status = 200,
                       !.keys = {"verdict", "humanTranscript", "aiTranscript",
                                 "humanLabel", "round"},
                       !.round = FinalRound + 1,
                       !.verdict = verdict, !.humanTranscript = humanTranscript,
                       !.aiTranscript = aiTranscript, !.humanLabel = humanLabel]

FinalResponse(verdict, humanTranscript, aiTranscript, humanLabel) ==
    [NoResponse EXCEPT !.status = 200,
                       !.keys = {"verdict", "humanTranscript", "aiTranscript", "humanLabel"},
                       !.verdict = verdict, !.humanTranscript = humanTranscript,
                       !.aiTranscript = aiTranscript, !.humanLabel = humanLabel]

-----------------------------------------------------------------------------
\* The recent-questions buffer

\* a buffer that puts the new question in front
recordFirstQuestion_Unshift(buffer, question) ==
    LET pushed == <<question>> \o buffer
    IN  IF Len(pushed) > RECENT_QUESTIONS_MAX THEN Tail(pushed) ELSE pushed

\* a buffer that never evicts
recordFirstQuestion_NoEvict(buffer, question) == Append(buffer, question)

\* a buffer that evicts the newest entry instead of the oldest
recordFirstQuestion_Pop(buffer, question) ==
    LET pushed == Append(buffer, question)
    IN  IF Len(pushed) > RECENT_QUESTIONS_MAX
        THEN SubSeq(pushed, 1, Len(pushed) - 1) ELSE pushed

\* a buffer that does not record a question it already holds
recordFirstQuestion_Dedup(buffer, question) ==
    IF \E k \in 1..Len(buffer) : buffer[k] = question THEN buffer
    ELSE LET pushed == Append(buffer, question)
         IN  IF Len(pushed) > RECENT_QUESTIONS_MAX THEN Tail(pushed) ELSE pushed

\* recordFirstQuestion: push, then shift once if over the maximum
recordFirstQuestion(buffer, question) ==
    LET pushed == Append(buffer, question)
    IN  IF Len(pushed) > RECENT_QUESTIONS_MAX THEN Tail(pushed) ELSE pushed

-----------------------------------------------------------------------------
\* Request handlers.  A slot holds the locals of one handler invocation:
\*   pc           where the handler is: idle, one of its awaits, or done (responded)
\*   route        "start" or "answer"
\*   body         the request body as received (kept for reference)
\*   round, history, humanAnswer   the destructured body; history is mutated
\*   firstQuestion, i, messages, transcript   the locals of runAiInterview
\*   humanLabel   the label drawn for the human
\*   verdictRaw   the judge's reply to the verdict call
\*   pending      the model call awaited
\*   replies      the questions and answers the model calls have returned so far
\*   calls        every model call issued so far by this request
\*   failed       the model call that rejected, if one did
\*   response     what res.json sent

Slots == {1, 2}

NoText == <<"(none)">>

IdleReq ==
    [pc |-> "idle", route |-> "none", body |-> NoBody,
     round |-> 0, history |-> <<>>, humanAnswer |-> Absent,
     firstQuestion |-> Absent, i |-> 0, messages |-> <<>>, transcript |-> <<>>,
     humanLabel |-> Absent, verdictRaw |-> NoText,
     pending |-> NoCall, calls |-> <<>>, replies |-> <<>>, failed |-> NoCall,
     response |-> NoResponse]

\* chat(role, prompt, messages) awaited at pc
Await(s, pc, call) ==
    [s EXCEPT !.pc = pc, !.pending = call, !.calls = Append(s.calls, call)]

\* res.json / res.status(500).json
Respond(s, response) ==
    [s EXCEPT !.pc = "done", !.pending = NoCall, !.response = response]

\* a handler that attaches the answer to the first round
AttachAnswer_First(history, humanAnswer) ==
    [history EXCEPT ![1] = Round(history[1].question, humanAnswer)]

\* a handler that pushes the answer as a round of its own
AttachAnswer_Push(history, humanAnswer) ==
    Append(history, Round(Absent, humanAnswer))

\* currentRound = history[history.length - 1]; currentRound.answer = humanAnswer
AttachAnswer(history, humanAnswer) ==
    [history EXCEPT ![Len(history)] = Round(history[Len(history)].question, humanAnswer)]

\* a handler that seeds the AI interview with the oldest recorded question
FirstQuestion_Recent(humanTranscript) ==
    IF recentFirstQuestions # <<>> THEN recentFirstQuestions[1]
    ELSE humanTranscript[1].question

\* a handler that seeds the AI interview with the current question
FirstQuestion_Current(humanTranscript) == humanTranscript[Len(humanTranscript)].question

\* const firstQuestion = humanTranscript[0].question
FirstQuestion(humanTranscript) == humanTranscript[1].question

\* a server that takes the completion branch when the history is full
IsFinalRound_ByLength(round, history) == Len(history) >= FinalRound

\* `if (round >= 3)`
IsFinalRound(round, history) == round >= FinalRound

\* /api/start up to its await
StartBegin(recent) ==
    Await([IdleReq EXCEPT !.route = "start"], "await_start",
          Call("judge", "interview", <<buildOpeningMessage(recent)>>))

\* a respondent call that carries the whole conversation
AskRespondent_WithHistory(s, question) ==
    Await(s, "await_respondent", Call("respondent", "respondent", s.messages))

\* One iteration of runAiInterview's loop from its top up to the respondent
\* call, for i > 0 once the judge's question has arrived.
AskRespondent(s, question) ==
    Await(s, "await_respondent", Call("respondent", "respondent", <<AskMsg(question)>>))

\* a handler that asks the judge for the next question whatever the history
AnswerBegin_NoHistoryCheck(body) ==
    Await([IdleReq EXCEPT !.route = "answer", !.body = body, !.round = body.round,
                          !.humanAnswer = body.humanAnswer, !.history = body.history],
          "await_next",
          Call("judge", "interview", buildInterviewMessages(body.history)))

\* /api/answer up to its first await (or to the 500 of a TypeError on an
\* empty or missing history)
AnswerBegin(body) ==
    LET s0 == [IdleReq EXCEPT !.route = "answer", !.body = body,
                              !.round = body.round, !.humanAnswer = body.humanAnswer]
    IN  IF ~body.historyPresent \/ body.history = <<>>
        THEN Respond(s0, ErrorResponse(AnswerError))
        ELSE LET humanTranscript == AttachAnswer(body.history, body.humanAnswer)
                 s1 == [s0 EXCEPT !.history = humanTranscript]
             IN  IF IsFinalRound(body.round, body.history)
                 THEN LET firstQuestion == FirstQuestion(humanTranscript)
                          s2 == [s1 EXCEPT !.firstQuestion = firstQuestion,
                                           !.i = 0,
                                           !.transcript = <<>>,
                                           !.messages = <<BeginMsg, QuestionMsg(firstQuestion)>>]
                      IN  AskRespondent(s2, firstQuestion)
                 ELSE Await(s1, "await_next",
                            Call("judge", "interview", buildInterviewMessages(humanTranscript)))

\* an interview that records the human's question of the same round
CurrentQuestion_FromHuman(s) ==
    IF s.i + 1 <= Len(s.history) THEN s.history[s.i + 1].question
    ELSE s.firstQuestion

\* the question of round s.i: the seed for i = 0, else the last assistant turn
CurrentQuestion(s) ==
    IF s.i = 0 THEN s.firstQuestion ELSE s.messages[Len(s.messages)].body[1]

\* an interview that asks the judge and the respondent at the same time
OnAnswer_Eager(s, answer) ==
    LET pushed == [s EXCEPT !.transcript = Append(s.transcript, Round(CurrentQuestion(s), answer)),
                            !.messages = Append(s.messages, AnswerMsg(answer)),
                            !.i = s.i + 1]
    IN  Await(AskRespondent(pushed, CurrentQuestion(s)),
              "await_judge", Call("judge", "interview", pushed.messages))

\* an interview that asks the respondent again without asking the judge
OnAnswer_SkipJudge(s, answer) ==
    LET pushed == [s EXCEPT !.transcript = Append(s.transcript, Round(CurrentQuestion(s), answer)),
                            !.messages = Append(s.messages, AnswerMsg(answer))
                                         \o <<QuestionMsg(CurrentQuestion(s))>>,
                            !.i = s.i + 1]
    IN  AskRespondent(pushed, CurrentQuestion(s))

\* The respondent's answer arrives in round i < 2: push the round, feed the
\* answer to the judge, i++, and ask the judge for the next question.
OnAnswer(s, answer) ==
    LET pushed == [s EXCEPT !.transcript = Append(s.transcript, Round(CurrentQuestion(s), answer)),
                            !.messages = Append(s.messages, AnswerMsg(answer)),
                            !.i = s.i + 1]
    IN  Await(pushed, "await_judge", Call("judge", "interview", pushed.messages))

\* an interview that asks the judge once more instead of the respondent
OnQuestion_JudgeAgain(s, question) ==
    LET asked == [s EXCEPT !.messages = Append(s.messages, QuestionMsg(question))]
    IN  Await(asked, "await_respondent", Call("judge", "interview", asked.messages))

\* The judge's question for round i > 0 arrives.
OnQuestion(s, question) ==
    AskRespondent([s EXCEPT !.messages = Append(s.messages, QuestionMsg(question))], question)

\* a completion that always presents the human as respondent A
OnLastAnswer_HumanFirst(s, answer, humanIsA) ==
    LET aiTranscript == Append(s.transcript, Round(CurrentQuestion(s), answer))
        done == [s EXCEPT !.transcript = aiTranscript, !.i = s.i + 1,
                          !.humanLabel = "A"]
    IN  Await(done, "await_verdict",
              Call("judge", "verdict", <<VerdictMsg(s.history, aiTranscript)>>))

\* The respondent's answer of the last round arrives: runAiInterview returns,
\* the label is drawn and the verdict is requested.
OnLastAnswer(s, answer, humanIsA) ==
    LET aiTranscript == Append(s.transcript, Round(CurrentQuestion(s), answer))
        humanLabel == IF humanIsA THEN "A" ELSE "B"
        transcriptA == IF humanIsA THEN s.history ELSE aiTranscript
        transcriptB == IF humanIsA THEN aiTranscript ELSE s.history
        done == [s EXCEPT !.transcript = aiTranscript, !.i = s.i + 1,
                          !.humanLabel = humanLabel]
    IN  Await(done, "await_verdict",
              Call("judge", "verdict", <<VerdictMsg(transcriptA, transcriptB)>>))

\* The verdict reply arrives: parse it and respond.
OnVerdict(s) ==
    Respond(s, FinalResponse(ParseVerdict(s.verdictRaw, s.humanLabel),
                             s.history, s.transcript, s.humanLabel))

\* The next question of the human's interview arrives: respond.
OnNextQuestion(s, nextQuestion) ==
    Respond(s, NextResponse(nextQuestion, s.round, s.history))

\* The opening question arrives: respond (the caller records it).
OnOpeningQuestion(s, question) ==
    Respond(s, StartResponse(question))

\* a catch that returns what the interview has gathered so far
OnReject_Partial(s) ==
    Respond([s EXCEPT !.failed = s.pending],
            [ErrorResponse(AnswerError) EXCEPT !.keys = {"error", "aiTranscript"},
                                               !.aiTranscript = s.transcript])

\* a catch of /api/start that still answers with a round
OnReject_WithRound(s) ==
    Respond([s EXCEPT !.failed = s.pending],
            [ErrorResponse(StartError) EXCEPT !.keys = {"error", "round"},
                                              !.round = FirstRound])

\* a catch that swallows the error and sends nothing
OnReject_Silent(s) ==
    [s EXCEPT !.pc = "hung", !.pending = NoCall, !.failed = s.pending]

\* The awaited call rejects: the handler's catch.
OnReject(s) ==
    Respond([s EXCEPT !.failed = s.pending],
            ErrorResponse(IF s.route = "start" THEN StartError ELSE AnswerError))

\* the awaited chat call returned this question or answer
Got(s, reply) == [s EXCEPT !.replies = Append(s.replies, reply)]

Awaiting(r) == req[r].pc \notin {"idle", "done"}
Free(r) == req[r].pc = "idle"

-----------------------------------------------------------------------------
\* The client (app.js)

\*   screen        the active screen: landing, game or verdict
\*   formDisabled  setFormDisabled: the answer form does not take input
\*   waiting       the fetch the client awaits: none, start or answer
\*   round, history, currentQuestion   the state object
\*   result, humanLabel, shownVerdict  what showVerdict displayed
\*   games, answersSent, callFailed   history variables: games started, answers
\*                 sent in this game, and whether a request of it was answered 500
\*   completionReceived   history variable: a completion response (status 200
\*                 with a verdict key) has arrived in this game
InitClient ==
    [screen |-> "landing", formDisabled |-> FALSE, waiting |-> "none",
     round |-> 0, history |-> <<>>, currentQuestion |-> Absent,
     result |-> "none", humanLabel |-> Absent, shownVerdict |-> NoVerdict,
     games |-> 0, answersSent |-> 0, callFailed |-> FALSE,
     completionReceived |-> FALSE]

\* startGame up to its await: reset the state, show the game screen with the
\* form disabled
startGame(c) ==
    [c EXCEPT !.round = 0, !.history = <<>>, !.currentQuestion = Absent,
              !.screen = "game", !.formDisabled = TRUE, !.waiting = "start",
              !.games = c.games + 1, !.answersSent = 0, !.callFailed = FALSE,
              !.completionReceived = FALSE]

\* startGame after its await: res.ok, or the catch (the form stays disabled)
startGameDone(c, data) ==
    IF data.status = 200
    THEN [c EXCEPT !.round = data.round, !.currentQuestion = data.question,
                   !.formDisabled = FALSE, !.waiting = "none"]
    ELSE [c EXCEPT !.waiting = "none", !.callFailed = TRUE]

\* the body apiAnswer sends
apiAnswerBody(c, humanAnswer) ==
    [humanAnswer |-> humanAnswer, round |-> c.round,
     history |-> Append(c.history, Round(c.currentQuestion, Absent)),
     historyPresent |-> TRUE]

\* submitAnswer up to its await
submitAnswer(c) ==
    [c EXCEPT !.formDisabled = TRUE, !.waiting = "answer",
              !.answersSent = c.answersSent + 1]

\* data.verdict as a condition: the key is there and its value is not null
Truthy(data) == "verdict" \in data.keys /\ data.verdict.type # "null"

\* a filter that keeps nothing
Answered_Nothing(history) == <<>>

\* data.history.filter((r) => r.answer !== undefined)
Answered(history) == SelectSeq(history, LAMBDA round : round.answer # Absent)

\* a verdict screen that reports the outcome the wrong way round
showVerdict_Inverted(c, verdict, humanTranscript, humanLabel) ==
    [c EXCEPT !.history = humanTranscript,
              !.result = IF verdict.humanIs = humanLabel THEN "passed" ELSE "identified",
              !.humanLabel = humanLabel, !.shownVerdict = verdict,
              !.screen = "verdict", !.waiting = "none"]

\* showVerdict
showVerdict(c, verdict, humanTranscript, humanLabel) ==
    [c EXCEPT !.history = humanTranscript,
              !.result = IF verdict.humanIs # humanLabel THEN "passed" ELSE "identified",
              !.humanLabel = humanLabel, !.shownVerdict = verdict,
              !.screen = "verdict", !.waiting = "none"]

\* the catch of submitAnswer: the form is enabled again
submitFailed(c, status) ==
    [c EXCEPT !.formDisabled = FALSE, !.waiting = "none",
              !.callFailed = c.callFailed \/ status # 200]

\* submitAnswer after its await
submitAnswerDone(c, data) ==
    LET received == [c EXCEPT !.completionReceived =
                         c.completionReceived
                         \/ (data.status = 200 /\ "verdict" \in data.keys)]
    IN  IF data.status # 200 THEN submitFailed(received, data.status)
        ELSE IF Truthy(data)
        THEN showVerdict(received, data.verdict, data.humanTranscript, data.humanLabel)
        ELSE IF "history" \notin data.keys THEN submitFailed(received, data.status)
        ELSE [received EXCEPT !.history = Answered(data.history), !.round = data.round,
                              !.currentQuestion = data.question,
                              !.formDisabled = FALSE, !.waiting = "none"]

\* reloading the page
reload(c) ==
    [InitClient EXCEPT !.games = c.games]

-----------------------------------------------------------------------------
\* The model-call layer (llm.js in its version with roles).  Temperatures
\* are in tenths.  An environment setting is a record: set says whether the
\* variable is there, and text or value is what it holds.

Roles == {"judge", "respondent"}            \* the keys of config
CalledRoles == Roles \cup {"narrator"}       \* the roles chat may be called with
Providers == {"mock", "openai", "anthropic"}    \* the keys of providers
DefaultProvider == "openai"

ProviderSettings ==
    { [set |-> FALSE, text |-> ""] }
    \cup { [set |-> TRUE, text |-> t] : t \in Providers \cup {"azure"} }

TemperatureSettings ==
    { [set |-> FALSE, value |-> 0] }
    \cup { [set |-> TRUE, value |-> v] : v \in 0..MaxTemperature }

Envs == [Roles -> [provider : ProviderSettings, temperature : TemperatureSettings]]

UnsetEnv ==
    [role \in Roles |-> [provider |-> [set |-> FALSE, text |-> ""],
                         temperature |-> [set |-> FALSE, value |-> 0]]]

\* parseFloat of an environment variable: NaN when it is not there
parseFloat(setting) == [nan |-> ~setting.set, value |-> setting.value]

\* `process.env.X_PROVIDER || "openai"`: the default replaces a falsy value
ProviderOrDefault(setting) ==
    IF ~setting.set \/ setting.text = "" THEN DefaultProvider ELSE setting.text

\* `parseFloat(process.env.X_TEMPERATURE) || 0.7`: NaN and 0 are falsy
TemperatureOrDefault(number) ==
    IF number.nan \/ number.value = 0 THEN DefaultTemperature ELSE number.value

\* const config
config(env) ==
    [role \in Roles |->
        [provider |-> ProviderOrDefault(env[role].provider),
         temperature |-> TemperatureOrDefault(parseFloat(env[role].temperature))]]

\* what a call of chat comes to: an error thrown, or a backend invoked with
\* a temperature argument and the temperature it puts in its API request
NoOutcome == [error |-> "none", backend |-> "none", temperature |-> 0, sent |-> 0]

Throws(error) == [NoOutcome EXCEPT !.error = error]

\* providers.openai.chat / providers.anthropic.chat / providers.mock.chat:
\* the temperature of the API request (the mock makes no request)
RequestTemperature(backend, temperature) ==
    CASE backend = "openai" -> temperature
      [] backend = "anthropic" ->
            IF temperature < AnthropicCap THEN temperature ELSE AnthropicCap
      [] OTHER -> 0

Invokes(backend, temperature) ==
    [NoOutcome EXCEPT !.backend = backend, !.temperature = temperature,
                      !.sent = RequestTemperature(backend, temperature)]

\* chat(role, systemPrompt, messages): destructuring config[role] throws a
\* TypeError when config has no such key
chat(env, role) ==
    IF role \notin Roles THEN Throws("TypeError")
    ELSE LET provider == config(env)[role].provider
             temperature == config(env)[role].temperature
         IN  IF provider = "" THEN Throws("Unknown role")
             ELSE IF provider \notin Providers THEN Throws("Unknown LLM provider")
             ELSE Invokes(provider, temperature)

IdleLlm(env) == [env |-> env, pc |-> "idle", role |-> "none", outcome |-> NoOutcome]

-----------------------------------------------------------------------------
\* Actions

Init ==
    /\ recentFirstQuestions = <<>>
    /\ req = [r \in Slots |-> IdleReq]
    /\ client = InitClient
    /\ recorded = <<>>
    /\ llm = IdleLlm(UnsetEnv)

\* POST /api/start
StartReceive(r) ==
    /\ Free(r)
    /\ req' = [req EXCEPT ![r] = StartBegin(recentFirstQuestions)]
    /\ UNCHANGED <<recentFirstQuestions, client, recorded, llm>>

\* the judge's opening question arrives: record it and respond
StartResolves(r, question) ==
    /\ req[r].pc = "await_start"
    /\ Len(recorded) < MaxStarts
    /\ recentFirstQuestions' = recordFirstQuestion(recentFirstQuestions, question)
    /\ recorded' = Append(recorded, question)
    /\ req' = [req EXCEPT ![r] = OnOpeningQuestion(Got(req[r], question), question)]
    /\ UNCHANGED <<client, llm>>

\* POST /api/answer with any body
AnswerReceive(r, body) ==
    /\ Free(r)
    /\ req' = [req EXCEPT ![r] = AnswerBegin(body)]
    /\ UNCHANGED <<recentFirstQuestions, client, recorded, llm>>

NextQuestionResolves(r, question) ==
    /\ req[r].pc = "await_next"
    /\ req' = [req EXCEPT ![r] = OnNextQuestion(Got(req[r], question), question)]
    /\ UNCHANGED <<recentFirstQuestions, client, recorded, llm>>

RespondentResolves(r, answer) ==
    /\ req[r].pc = "await_respondent"
    /\ req[r].i < InterviewRounds - 1
    /\ req' = [req EXCEPT ![r] = OnAnswer(Got(req[r], answer), answer)]
    /\ UNCHANGED <<recentFirstQuestions, client, recorded, llm>>

JudgeResolves(r, question) ==
    /\ req[r].pc = "await_judge"
    /\ req' = [req EXCEPT ![r] = OnQuestion(Got(req[r], question), question)]
    /\ UNCHANGED <<recentFirstQuestions, client, recorded, llm>>

InterviewCompletes(r, answer, humanIsA) ==
    /\ req[r].pc = "await_respondent"
    /\ req[r].i >= InterviewRounds - 1
    /\ req' = [req EXCEPT ![r] = OnLastAnswer(Got(req[r], answer), answer, humanIsA)]
    /\ UNCHANGED <<recentFirstQuestions, client, recorded, llm>>

VerdictResolves(r, verdictRaw) ==
    /\ req[r].pc = "await_verdict"
    /\ req' = [req EXCEPT ![r] = OnVerdict([req[r] EXCEPT !.verdictRaw = verdictRaw])]
    /\ UNCHANGED <<recentFirstQuestions, client, recorded, llm>>

\* any awaited model call fails
ChatRejects(r) ==
    /\ Awaiting(r)
    /\ req' = [req EXCEPT ![r] = OnReject(req[r])]
    /\ UNCHANGED <<recentFirstQuestions, client, recorded, llm>>

\* The response has been delivered: the handler's invocation is over and its
\* locals are gone.
Release(r) ==
    /\ req[r].pc = "done"
    /\ req' = [req EXCEPT ![r] = IdleReq]
    /\ UNCHANGED <<recentFirstQuestions, client, recorded, llm>>

\* The awaited model call of an /api/answer request resolves or rejects;
\* the replies are drawn from the given sets.
AnswerSteps(r, questions, answers) ==
    \/ /\ req[r].pc = "await_next"
       /\ \E q \in questions : NextQuestionResolves(r, q)
    \/ /\ req[r].pc = "await_respondent"
       /\ \E a \in answers : RespondentResolves(r, a)
    \/ /\ req[r].pc = "await_judge"
       /\ \E q \in questions : JudgeResolves(r, q)
    \/ /\ req[r].pc = "await_respondent"
       /\ \E a \in answers, humanIsA \in BOOLEAN : InterviewCompletes(r, a, humanIsA)
    \/ /\ req[r].pc = "await_verdict"
       /\ \E t \in VerdictReplies : VerdictResolves(r, t)
    \/ ChatRejects(r)

\* The server alone, answering /api/answer requests with arbitrary bodies.
Next ==
    \/ /\ Free(1)
       /\ \E body \in Bodies : AnswerReceive(1, body)
    \/ AnswerSteps(1, Questions, AiAnswers)
    \/ Release(1)

Spec == Init /\ [][Next]_vars

\* The bundled client and the server: the player clicks Play or Play again,
\* types answers, or reloads the page; the client's requests go to slot 1.
ClientStartGame ==
    /\ client.screen \in {"landing", "verdict"}
    /\ client.waiting = "none"
    /\ client.games < MaxGames
    /\ Free(1)
    /\ client' = startGame(client)
    /\ req' = [req EXCEPT ![1] = StartBegin(recentFirstQuestions)]
    /\ UNCHANGED <<recentFirstQuestions, recorded, llm>>

ClientStartDone ==
    /\ client.waiting = "start"
    /\ req[1].pc = "done"
    /\ client' = startGameDone(client, req[1].response)
    /\ req' = [req EXCEPT ![1] = IdleReq]
    /\ UNCHANGED <<recentFirstQuestions, recorded, llm>>

ClientSubmitAnswer(humanAnswer) ==
    /\ client.screen = "game"
    /\ ~client.formDisabled
    /\ client.waiting = "none"
    /\ client.answersSent < MaxAnswers
    /\ Free(1)
    /\ client' = submitAnswer(client)
    /\ req' = [req EXCEPT ![1] = AnswerBegin(apiAnswerBody(client, humanAnswer))]
    /\ UNCHANGED <<recentFirstQuestions, recorded, llm>>

ClientAnswerDone ==
    /\ client.waiting = "answer"
    /\ req[1].pc = "done"
    /\ client' = submitAnswerDone(client, req[1].response)
    /\ req' = [req EXCEPT ![1] = IdleReq]
    /\ UNCHANGED <<recentFirstQuestions, recorded, llm>>

ClientReload ==
    /\ client.screen = "game"
    /\ client.waiting = "none"
    /\ client' = reload(client)
    /\ UNCHANGED <<recentFirstQuestions, req, recorded, llm>>

NextGame ==
    \/ ClientStartGame
    \/ ClientStartDone
    \/ \E a \in HumanAnswers : ClientSubmitAnswer(a)
    \/ ClientAnswerDone
    \/ ClientReload
    \/ \E q \in FewOpeningQuestions : StartResolves(1, q)
    \/ AnswerSteps(1, Questions, AiAnswers)

SpecGame == Init /\ [][NextGame]_vars

\* The server alone, answering /api/start requests one after the other.
NextStart ==
    \/ StartReceive(1)
    \/ \E q \in OpeningQuestions : StartResolves(1, q)
    \/ ChatRejects(1)
    \/ Release(1)

SpecStart == Init /\ [][NextStart]_vars

\* The server alone, answering /api/start requests that overlap: a handler
\* runs from one await to the next without interruption, and handlers
\* interleave at their awaits.
NextRace ==
    \E r \in Slots :
        \/ StartReceive(r)
        \/ \E q \in FewOpeningQuestions : StartResolves(r, q)
        \/ ChatRejects(r)
        \/ Release(r)

SpecRace == Init /\ [][NextRace]_vars

\* The model-call layer alone, under every environment: chat is called with
\* a role and throws or invokes a backend.
InitChat ==
    /\ recentFirstQuestions = <<>>
    /\ req = [r \in Slots |-> IdleReq]
    /\ client = InitClient
    /\ recorded = <<>>
    /\ llm \in { IdleLlm(env) : env \in Envs }

ChatCall(role) ==
    /\ llm.pc = "idle"
    /\ llm' = [llm EXCEPT !.pc = "called", !.role = role,
                          !.outcome = chat(llm.env, role)]
    /\ UNCHANGED <<recentFirstQuestions, req, client, recorded>>

ChatSettles ==
    /\ llm.pc = "called"
    /\ llm' = IdleLlm(llm.env)
    /\ UNCHANGED <<recentFirstQuestions, req, client, recorded>>

NextChat ==
    \/ \E role \in CalledRoles : ChatCall(role)
    \/ ChatSettles

SpecChat == InitChat /\ [][NextChat]_vars

\* The server alone, answering /api/start and /api/answer requests one after
\* the other, with every model call eventually resolving or rejecting.
LiveOpeningQuestions == {"o1"}

LiveBodies == { body \in Bodies : Len(body.history) <= 1 }

ModelCallSettles ==
    \/ \E q \in LiveOpeningQuestions : StartResolves(1, q)
    \/ AnswerSteps(1, Questions, AiAnswers)

NextLive ==
    \/ StartReceive(1)
    \/ /\ Free(1)
       /\ \E body \in LiveBodies : AnswerReceive(1, body)
    \/ ModelCallSettles
    \/ Release(1)

SpecLive == Init /\ [][NextLive]_vars /\ WF_vars(ModelCallSettles)

-----------------------------------------------------------------------------
\* Properties

Labels == {"A", "B"}

Done(r) == req[r].pc = "done"

\* the request in slot r took the completion branch and was answered 200
Final200(r) ==
    /\ Done(r) /\ req[r].route = "answer"
    /\ req[r].body.round >= FinalRound
    /\ req[r].response.status = 200

\* the request in slot r took the advance branch and was answered 200
Advance200(r) ==
    /\ Done(r) /\ req[r].route = "answer"
    /\ req[r].body.round < FinalRound
    /\ req[r].response.status = 200

\* the request in slot r was an /api/start answered 200
Start200(r) ==
    Done(r) /\ req[r].route = "start" /\ req[r].response.status = 200

\* `after` is `before` with the answer attached to its last round and every
\* other round unchanged
AnswerAttached(before, after, humanAnswer) ==
    /\ Len(after) = Len(before)
    /\ Len(before) >= 1
    /\ \A i \in 1..(Len(before) - 1) : after[i] = before[i]
    /\ after[Len(after)] = Round(before[Len(before)].question, humanAnswer)

\* the last n elements of a sequence
LastN(seq, n) == SubSeq(seq, Len(seq) - n + 1, Len(seq))

Min(a, b) == IF a < b THEN a ELSE b

Range(seq) == { seq[i] : i \in 1..Len(seq) }

\* C1: every final-round request answered 200 returns a verdict whose humanIs
\* is "A" or "B", whatever text the judge returned for the verdict call.
C1_VerdictLabelIsAorB ==
    \A r \in Slots : Final200(r) => req[r].response.verdict.humanIs \in Labels

\* The verdict replies that are not JSON once the fences are stripped: prose
\* around a document, prose in a fence, and the empty text.
MalformedReplies ==
    { <<"x", SP, "{A}">>, <<BT, BT, BT, "x", BT, BT, BT>>, <<>> }

\* C2: when the verdict reply is not JSON after fence stripping, the request is
\* answered 200 (never 500) with the fallback verdict: humanIs is the human's
\* label, analysisA is the raw reply, analysisB and summary are empty.
C2_FallbackOnMalformedVerdict ==
    \A r \in Slots :
        (Done(r) /\ req[r].verdictRaw \in MalformedReplies) =>
            /\ req[r].response.status = 200
            /\ req[r].response.humanLabel \in Labels
            /\ req[r].response.verdict.humanIs = req[r].response.humanLabel
            /\ req[r].response.verdict.analysisA = req[r].verdictRaw
            /\ req[r].response.verdict.analysisB = <<>>
            /\ req[r].response.verdict.summary = <<>>

C2_Witness ==
    /\ Done(1)
    /\ req[1].verdictRaw = <<BT, BT, BT, "x", BT, BT, BT>>
    /\ req[1].response.status = 200
    /\ req[1].response.humanLabel = "B"
    /\ req[1].response.verdict.analysisA = <<BT, BT, BT, "x", BT, BT, BT>>

\* C3 as stated: every final-round request answered 200 returns two
\* transcripts of exactly 3 rounds, and no transcript of a request that is
\* answered 200, or of its response, has more than 3 rounds.
C3_TranscriptsHaveThreeRounds ==
    \A r \in Slots :
        /\ Final200(r) =>
              /\ Len(req[r].response.humanTranscript) = InterviewRounds
              /\ Len(req[r].response.aiTranscript) = InterviewRounds
        /\ (Done(r) /\ req[r].response.status = 200) =>
              /\ Len(req[r].body.history) <= InterviewRounds
              /\ Len(req[r].response.history) <= InterviewRounds
              /\ Len(req[r].response.humanTranscript) <= InterviewRounds
              /\ Len(req[r].response.aiTranscript) <= InterviewRounds

\* C3, amended: every final-round request answered 200 returns an
\* aiTranscript of exactly 3 rounds and a humanTranscript of exactly as many
\* rounds as the history of the request, so 3 when that history has 3 rounds;
\* no response carries an aiTranscript of more than 3 rounds.
C3_TranscriptLengths ==
    \A r \in Slots :
        /\ Final200(r) =>
              /\ Len(req[r].response.aiTranscript) = InterviewRounds
              /\ Len(req[r].response.humanTranscript) = Len(req[r].body.history)
        /\ Len(req[r].response.aiTranscript) <= InterviewRounds

C3_Witness ==
    /\ Final200(1)
    /\ Len(req[1].body.history) = InterviewRounds
    /\ Len(req[1].response.humanTranscript) = InterviewRounds
    /\ Len(req[1].response.aiTranscript) = InterviewRounds

\* C4: in every final-round request answered 200 the first question of the
\* aiTranscript is the first question of the humanTranscript.
C4_SameFirstQuestion ==
    \A r \in Slots :
        Final200(r) =>
            /\ Len(req[r].response.aiTranscript) >= 1
            /\ Len(req[r].response.humanTranscript) >= 1
            /\ req[r].response.aiTranscript[1].question
                   = req[r].response.humanTranscript[1].question

C4_Witness ==
    /\ Final200(1)
    /\ Len(req[1].body.history) = InterviewRounds
    /\ req[1].body.history[1].question = "q2"
    /\ req[1].body.history[InterviewRounds].question = "q1"
    /\ req[1].response.aiTranscript[1].question = "q2"

\* C5: a game played with the bundled client in which no model call fails
\* goes from round 1 to round 2 to round 3 to the verdict: while the client
\* waits for an answer its round is the number of answers sent plus one and
\* at most 3, and the verdict is shown after exactly three answers, with
\* humanIs "A" or "B" and two transcripts of 3 rounds.
C5_GameReachesVerdict ==
    /\ (/\ client.screen = "game" /\ client.waiting = "none"
        /\ ~client.formDisabled /\ ~client.callFailed) =>
            /\ client.round = client.answersSent + 1
            /\ client.round <= FinalRound
    /\ (client.waiting = "answer" /\ Done(1) /\ ~client.callFailed
        /\ req[1].response.status = 200) =>
            IF client.answersSent < FinalRound
            THEN /\ req[1].response.keys = {"question", "round", "history"}
                 /\ req[1].response.round = client.answersSent + 1
            ELSE /\ client.answersSent = FinalRound
                 /\ "verdict" \in req[1].response.keys
                 /\ req[1].response.verdict.humanIs \in Labels
                 /\ Len(req[1].response.humanTranscript) = InterviewRounds
                 /\ Len(req[1].response.aiTranscript) = InterviewRounds
    /\ (client.screen = "verdict" /\ ~client.callFailed) =>
            /\ client.answersSent = FinalRound
            /\ client.shownVerdict.humanIs \in Labels

\* C6: a request of the advance branch (round < 3, non-empty history) whose
\* model call succeeds is answered {question, round, history}: round is the
\* request's round plus one, question is the judge's reply, history is the
\* request's history with humanAnswer attached to the last entry; exactly one
\* model call was made, to the judge for a question.
C6_AdvanceTransition ==
    \A r \in Slots :
        Advance200(r) =>
            /\ req[r].response.keys = {"question", "round", "history"}
            /\ req[r].response.round = req[r].body.round + 1
            /\ Len(req[r].replies) = 1
            /\ req[r].response.question = req[r].replies[1]
            /\ AnswerAttached(req[r].body.history, req[r].response.history,
                              req[r].body.humanAnswer)
            /\ Len(req[r].calls) = 1
            /\ req[r].calls[1].role = "judge"
            /\ req[r].calls[1].prompt = "interview"

C6_Witness ==
    /\ Advance200(1)
    /\ req[1].body.round = 2
    /\ Len(req[1].body.history) = 2
    /\ req[1].body.history[2].answer = Absent
    /\ req[1].response.history[2].answer = "h2"
    /\ req[1].response.round = 3
    /\ req[1].response.question = "q2"

\* C7: a final-round request (round >= 3) whose model calls all succeed is
\* answered with exactly verdict, humanTranscript, aiTranscript and
\* humanLabel: humanTranscript is the request's history with humanAnswer
\* attached to the last entry, humanLabel is "A" or "B", and there is no
\* question and no round.
C7_CompletionTransition ==
    \A r \in Slots :
        Final200(r) =>
            /\ req[r].response.keys
                   = {"verdict", "humanTranscript", "aiTranscript", "humanLabel"}
            /\ AnswerAttached(req[r].body.history, req[r].response.humanTranscript,
                              req[r].body.humanAnswer)
            /\ req[r].response.humanLabel \in Labels
            /\ req[r].response.question = Absent
            /\ req[r].response.round = 0

C7_Witness ==
    /\ Final200(1)
    /\ req[1].body.round = FinalRound
    /\ Len(req[1].body.history) = InterviewRounds
    /\ req[1].response.humanTranscript[InterviewRounds].answer = "h2"
    /\ req[1].response.humanLabel = "A"
    /\ req[1].response.verdict = VerdictObject("B")

\* C8: every /api/start answered 200 made exactly one model call, to the
\* judge, returns {question, round: 1} with the judge's reply as question, and
\* has appended that question to the recent-questions buffer.
C8_StartTransition ==
    \A r \in Slots :
        Start200(r) =>
            /\ Len(req[r].calls) = 1
            /\ req[r].calls[1].role = "judge"
            /\ req[r].response.keys = {"question", "round"}
            /\ req[r].response.round = 1
            /\ Len(req[r].replies) = 1
            /\ req[r].response.question = req[r].replies[1]
            /\ Len(recentFirstQuestions) >= 1
            /\ recentFirstQuestions[Len(recentFirstQuestions)] = req[r].response.question

C8_Witness ==
    /\ Start200(1)
    /\ Len(recorded) = 2
    /\ recentFirstQuestions = <<"o3", "o5">>
    /\ req[1].response.question = "o5"

\* C9: the recent-questions buffer never holds more than 5 entries, whatever
\* the number and the interleaving of /api/start requests.
C9_BufferBounded == Len(recentFirstQuestions) <= 5

C9_Witness ==
    /\ Len(recorded) = 6
    /\ Len(recentFirstQuestions) = 5
    /\ req[1].pc = "await_start"
    /\ req[2].pc = "done"

\* C10: after k opening questions have been recorded the buffer holds the
\* most recent min(k, 5) of them in the order of recording, and these are the
\* questions listed in the next opening message to the judge.
C10_StrictFifo ==
    /\ recentFirstQuestions = LastN(recorded, Min(Len(recorded), 5))
    /\ req[1].pc = "await_start" =>
           req[1].pending.messages
               = <<buildOpeningMessage(LastN(recorded, Min(Len(recorded), 5)))>>

\* six distinct questions recorded: the oldest is gone, and the seventh
\* opening message lists the five most recent
C10_Witness ==
    /\ recorded = <<"o1", "o2", "o3", "o4", "o5", "o6">>
    /\ recentFirstQuestions = <<"o2", "o3", "o4", "o5", "o6">>
    /\ req[1].pc = "await_start"
    /\ req[1].pending.messages[1].body = <<"o2", "o3", "o4", "o5", "o6">>

\* the model calls of the request in slot r that have resolved
Resolved(r) == Len(req[r].replies) + (IF req[r].verdictRaw # NoText THEN 1 ELSE 0)

\* C11: when a model call of an /api/answer request fails - the next-question
\* call, a judge or respondent call of the AI interview, or the verdict call -
\* the request is answered 500 with the generic message and nothing else (no
\* transcript, no verdict), the failed call is the last call the request
\* issued, and every call before it was issued once and resolved.
C11_FailureFailsWholeRequest ==
    (req[1].route = "answer" /\ req[1].failed # NoCall) =>
        /\ Done(1)
        /\ req[1].response = ErrorResponse(AnswerError)
        /\ req[1].response.keys = {"error"}
        /\ req[1].pending = NoCall
        /\ req[1].calls[Len(req[1].calls)] = req[1].failed
        /\ Len(req[1].calls) = Len(req[1].replies) + 1
        /\ req[1].verdictRaw = NoText

\* the third respondent call fails, after two complete rounds of the interview
C11_Witness ==
    /\ req[1].route = "answer" /\ Done(1)
    /\ req[1].failed.role = "respondent"
    /\ Len(req[1].transcript) = 2
    /\ Len(req[1].calls) = 5
    /\ req[1].response.status = 500

\* C12: when the judge call of /api/start fails, the request is answered 500
\* with the "Failed to start game" message and nothing else (no question, no
\* round), and the recent-questions buffer is what it was when the request
\* arrived, that is, what its opening message listed.
C12_StartFailure ==
    (req[1].route = "start" /\ req[1].failed # NoCall) =>
        /\ Done(1)
        /\ req[1].response.status = 500
        /\ req[1].response.error = StartError
        /\ req[1].response.keys = {"error"}
        /\ req[1].response.question = Absent
        /\ req[1].replies = <<>>
        /\ req[1].failed.messages = <<buildOpeningMessage(recentFirstQuestions)>>
        /\ recentFirstQuestions = LastN(recorded, Min(Len(recorded), RECENT_QUESTIONS_MAX))

\* a start fails after two others have succeeded
C12_Witness ==
    /\ req[1].route = "start" /\ Done(1)
    /\ req[1].failed.role = "judge"
    /\ req[1].response.status = 500
    /\ recentFirstQuestions = <<"o1", "o2">>

\* C13: once a request of a game has been answered 500, the bundled client
\* sends no further /api/answer request in that game - the player has to
\* start a new game.
C13_NoResumeAfterFailure ==
    client.callFailed => client.waiting # "answer"

\* the response to an /api/answer request as a function of its body, of the
\* model replies (or the failure of a call), and of the label drawn
ResponseFrom(body, replies, failed, verdictRaw, humanLabel) ==
    IF failed \/ ~body.historyPresent \/ body.history = <<>>
    THEN ErrorResponse(AnswerError)
    ELSE LET humanTranscript ==
                 [k \in 1..Len(body.history) |->
                     IF k = Len(body.history)
                     THEN Round(body.history[k].question, body.humanAnswer)
                     ELSE body.history[k]]
         IN  IF body.round >= FinalRound
             THEN FinalResponse(ParseVerdict(verdictRaw, humanLabel),
                                humanTranscript,
                                <<Round(body.history[1].question, replies[1]),
                                  Round(replies[2], replies[3]),
                                  Round(replies[4], replies[5])>>,
                                humanLabel)
             ELSE NextResponse(replies[1], body.round, humanTranscript)

Failed(r) == IF req[r].failed # NoCall THEN 1 ELSE 0

\* C15: at every moment of an /api/answer request the calls it has issued are
\* the calls that have resolved or failed plus at most one, the call it is
\* awaiting: a call is issued only when every earlier call of the request has
\* resolved, on the advance branch and along the whole final-round chain.
C15_OneCallOutstanding ==
    req[1].route = "answer" =>
        /\ Len(req[1].calls) - Resolved(1) - Failed(1) \in {0, 1}
        /\ (Len(req[1].calls) - Resolved(1) - Failed(1) = 1) <=> Awaiting(1)
        /\ Awaiting(1) => req[1].pending = req[1].calls[Len(req[1].calls)]
        /\ ~Awaiting(1) => req[1].pending = NoCall

\* the verdict call is outstanding and the five calls before it have resolved
C15_Witness ==
    /\ req[1].pc = "await_verdict"
    /\ Len(req[1].calls) = 6
    /\ Resolved(1) = 5

\* the number of calls with this role and prompt among the calls
CountCalls(calls, role, prompt) ==
    Cardinality({ k \in 1..Len(calls) : calls[k].role = role /\ calls[k].prompt = prompt })

\* the most calls a request may make by the formula 1 + 2 * 3 + 1
CallBudget == 1 + 2 * InterviewRounds + 1

Chain ==
    << <<"respondent", "respondent">>, <<"judge", "interview">>,
       <<"respondent", "respondent">>, <<"judge", "interview">>,
       <<"respondent", "respondent">>, <<"judge", "verdict">> >>

\* the request in slot r took the completion branch
FinalBranch(r) ==
    /\ req[r].route = "answer"
    /\ req[r].body.historyPresent /\ req[r].body.history # <<>>
    /\ req[r].body.round >= FinalRound

\* C17: the calls of a final-round request are, in this order, respondent,
\* judge, respondent, judge, respondent, verdict (or a prefix of it, if a call
\* failed): the first respondent call asks the human's first question as it
\* is, without a judge call before it; each judge call carries, as its last
\* message, the answer of the round before; the verdict call exists only when
\* three rounds of the AI interview are complete.
C17_CallOrder ==
    FinalBranch(1) =>
        LET calls == req[1].calls
            replies == req[1].replies
        IN  /\ Len(calls) <= Len(Chain)
            /\ \A k \in 1..Len(calls) : <<calls[k].role, calls[k].prompt>> = Chain[k]
            /\ Len(calls) >= 1
            /\ calls[1].messages = <<AskMsg(req[1].body.history[1].question)>>
            /\ \A k \in {2, 4} : k <= Len(calls) =>
                   /\ Len(replies) >= k - 1
                   /\ calls[k].messages[Len(calls[k].messages)] = AnswerMsg(replies[k - 1])
            /\ Len(calls) = Len(Chain) =>
                   /\ Len(replies) = 2 * InterviewRounds - 1
                   /\ Len(req[1].transcript) = InterviewRounds
                   /\ \A k \in 1..InterviewRounds :
                          req[1].transcript[k].answer = replies[2 * k - 1]
            /\ Final200(1) => Len(calls) = Len(Chain)

\* the verdict call has been issued after an interview whose follow-up
\* questions differ
C17_Witness ==
    /\ FinalBranch(1)
    /\ req[1].pc = "await_verdict"
    /\ req[1].replies = <<"r1", "q2", "r1", "q1", "r1">>
    /\ req[1].body.history[1].question = "q1"

\* C18: every call to the respondent carries exactly one message, a user
\* message whose content is the question of the current round and nothing
\* else: the human's first question for the first call, and for a later call
\* the question the judge has just returned.
C18_RespondentSeesOnlyQuestion ==
    \A k \in 1..Len(req[1].calls) :
        req[1].calls[k].role = "respondent" =>
            /\ Len(req[1].calls[k].messages) = 1
            /\ req[1].calls[k].messages[1] =
                   AskMsg(IF k = 1 THEN req[1].body.history[1].question
                          ELSE req[1].replies[k - 1])

\* the third respondent call, in an interview whose three questions are not
\* all the same and whose human transcript holds answers
C18_Witness ==
    /\ FinalBranch(1)
    /\ Len(req[1].calls) = 5
    /\ req[1].pc = "await_respondent"
    /\ req[1].body.history[1] = Round("q1", "h1")
    /\ req[1].replies = <<"r1", "q2", "r1", "q1">>
    /\ req[1].pending.messages = <<AskMsg("q1")>>

\* every round of the transcript has an answer
AllAnswered(transcript) ==
    \A k \in 1..Len(transcript) : transcript[k].answer # Absent

\* every round but the last has an answer, and the last has none
InFlight(transcript) ==
    /\ Len(transcript) >= 1
    /\ AllAnswered(SubSeq(transcript, 1, Len(transcript) - 1))
    /\ transcript[Len(transcript)].answer = Absent

\* C19: in a game played with the bundled client a round without an answer is
\* only ever the last round of a history on its way to the server: every
\* history sent has all rounds answered but the last, and the history the
\* handler works on after attaching the answer, every history and transcript
\* in a response, and the history the client keeps have all rounds answered.
C19_RoundInvariant ==
    /\ AllAnswered(client.history)
    /\ req[1].route = "answer" =>
           /\ InFlight(req[1].body.history)
           /\ AllAnswered(req[1].history)
           /\ AllAnswered(req[1].transcript)
           /\ AllAnswered(req[1].response.history)
           /\ AllAnswered(req[1].response.humanTranscript)
           /\ AllAnswered(req[1].response.aiTranscript)

\* the third request of a game has been answered with the verdict
C19_Witness ==
    /\ Final200(1)
    /\ Len(req[1].body.history) = 3
    /\ Len(client.history) = 2
    /\ Len(req[1].response.humanTranscript) = 3
    /\ client.waiting = "answer"

\* C20: for an /api/answer request with a non-empty history the branch is
\* chosen by round >= 3 alone - the first call is the respondent call of the
\* AI interview when round >= 3 and the next-question call otherwise,
\* whatever the length of the history - the answer is attached to the last
\* round of the history whatever the round, and the request is answered 500
\* only if one of its model calls failed, never because round and the length
\* of the history differ.
C20_BranchOnRoundAlone ==
    (req[1].route = "answer" /\ req[1].body.historyPresent
        /\ req[1].body.history # <<>>) =>
        /\ AnswerAttached(req[1].body.history, req[1].history, req[1].body.humanAnswer)
        /\ Len(req[1].calls) >= 1
        /\ req[1].body.round >= FinalRound =>
               /\ req[1].calls[1].role = "respondent"
               /\ CountCalls(req[1].calls, "judge", "interview") <= InterviewRounds - 1
        /\ req[1].body.round < FinalRound =>
               req[1].calls = <<Call("judge", "interview",
                                     buildInterviewMessages(req[1].history))>>
        /\ Done(1) =>
               IF req[1].failed # NoCall THEN req[1].response.status = 500
               ELSE /\ req[1].response.status = 200
                    /\ "verdict" \in req[1].response.keys
                           <=> req[1].body.round >= FinalRound
                    /\ "question" \in req[1].response.keys
                           <=> req[1].body.round < FinalRound

\* round 2 with a four-round history advances, and its answer is on the
\* fourth round
C20_Witness ==
    /\ Advance200(1)
    /\ req[1].body.round = 2
    /\ Len(req[1].body.history) = 4
    /\ req[1].response.round = 3
    /\ req[1].response.history[4].answer = "h2"

\* the other label
Other(label) == IF label = "A" THEN "B" ELSE IF label = "B" THEN "A" ELSE label

\* a JSON document with A and B exchanged: humanIs renamed, the two analyses
\* exchanged
RelabelAtom(c) ==
    CASE c = "{A}" -> "{B~}"
      [] c = "{B}" -> "{A~}"
      [] c = "{C}" -> "{C~}"
      [] c = "{A~}" -> "{B}"
      [] c = "{B~}" -> "{A}"
      [] c = "{C~}" -> "{C}"
      [] OTHER -> c

\* the judge's reply as it would read had the two transcripts been labelled
\* the other way round
Relabel(verdictRaw) == [k \in 1..Len(verdictRaw) |-> RelabelAtom(verdictRaw[k])]

\* a verdict with A and B exchanged
SwapVerdict(verdict) ==
    [verdict EXCEPT !.humanIs = Other(verdict.humanIs),
                    !.analysisA = verdict.analysisB,
                    !.analysisB = verdict.analysisA]

\* showVerdict: verdict[`analysis${humanLabel}`] and verdict[`analysis${aiLabel}`]
HumanAnalysis(verdict, humanLabel) ==
    IF humanLabel = "A" THEN verdict.analysisA ELSE verdict.analysisB
AiAnalysis(verdict, humanLabel) ==
    IF humanLabel = "A" THEN verdict.analysisB ELSE verdict.analysisA

\* C21 as stated: for every completion, the verdict obtained under the other
\* labelling from the relabelled reply is the returned verdict with A and B
\* exchanged, and the analyses the client attributes to the human and to the
\* AI are the same under both labellings - also when the reply does not parse.
C21_RelabellingSymmetryWithFallback ==
    Final200(1) =>
        LET other == ParseVerdict(Relabel(req[1].verdictRaw), Other(req[1].humanLabel))
            verdict == req[1].response.verdict
        IN  /\ other = SwapVerdict(verdict)
            /\ HumanAnalysis(other, Other(req[1].humanLabel))
                   = HumanAnalysis(verdict, req[1].humanLabel)
            /\ AiAnalysis(other, Other(req[1].humanLabel))
                   = AiAnalysis(verdict, req[1].humanLabel)

\* C21: for every completion whose verdict reply parses, the verdict obtained
\* under the other labelling from the relabelled reply is the returned
\* verdict with A and B exchanged, and the client attributes the same
\* analyses to the human and to the AI under both labellings.  When the reply
\* does not parse, both labellings name the human's label as humanIs and put
\* the raw text in analysisA, so the text is attributed to the human under
\* label A and to the AI under label B.
C21_RelabellingSymmetry ==
    Final200(1) =>
        LET raw == req[1].verdictRaw
            label == req[1].humanLabel
            other == ParseVerdict(Relabel(raw), Other(label))
            verdict == req[1].response.verdict
        IN  IF Parses(Cleaned(raw))
            THEN /\ other = SwapVerdict(verdict)
                 /\ HumanAnalysis(other, Other(label)) = HumanAnalysis(verdict, label)
                 /\ AiAnalysis(other, Other(label)) = AiAnalysis(verdict, label)
            ELSE /\ verdict.humanIs = label /\ other.humanIs = Other(label)
                 /\ verdict.analysisA = raw /\ other.analysisA = Relabel(raw)
                 /\ verdict.analysisB = <<>> /\ other.analysisB = <<>>

\* a fenced verdict naming A is returned to a human labelled B
C21_Witness ==
    /\ Final200(1)
    /\ req[1].humanLabel = "B"
    /\ req[1].verdictRaw = <<BT, BT, BT, "jso", "n", NL, "{A}", NL, BT, BT, BT>>
    /\ req[1].response.verdict.humanIs = "A"
    /\ HumanAnalysis(req[1].response.verdict, "B") = <<"b">>

\* the request in slot r awaits the last answer of the AI interview
LastAnswerAwaited(r) ==
    /\ req[r].route = "answer"
    /\ req[r].pc = "await_respondent"
    /\ req[r].i = InterviewRounds - 1

\* the verdict message with the human transcript in the block of this label
VerdictMsgWithHumanAs(label, humanTranscript, aiTranscript) ==
    IF label = "A" THEN VerdictMsg(humanTranscript, aiTranscript)
    ELSE VerdictMsg(aiTranscript, humanTranscript)

\* C22: whenever a final-round request is about to draw the label - for every
\* body and after any number of earlier requests - both outcomes are possible
\* for every reply of the respondent: a step to humanLabel "A" with the human
\* transcript in block A of the verdict prompt, and a step to humanLabel "B"
\* with the human transcript in block B.
C22_BothLabelsPossible ==
    LastAnswerAwaited(1) =>
        \A answer \in AiAnswers, label \in Labels :
            ENABLED
                /\ \E humanIsA \in BOOLEAN : InterviewCompletes(1, answer, humanIsA)
                /\ req'[1].humanLabel = label
                /\ req'[1].pending.messages =
                       <<VerdictMsgWithHumanAs(label, req[1].history,
                             Append(req[1].transcript,
                                    Round(CurrentQuestion(req[1]), answer)))>>

\* the same body has led to a human labelled B whose transcript is in block B
C22_Witness ==
    /\ req[1].pc = "await_verdict"
    /\ req[1].humanLabel = "B"
    /\ req[1].body.round = 3
    /\ Len(req[1].body.history) = 3
    /\ req[1].pending.messages =
           <<VerdictMsg(req[1].transcript, req[1].history)>>
    /\ req[1].transcript # req[1].history

\* the step completes the /api/start request in slot r with status 200
StartCompletes(r) ==
    /\ req[r].pc = "await_start"
    /\ req'[r].pc = "done"
    /\ req'[r].response.status = 200

\* C23: with /api/start requests overlapping in any way, the step that
\* answers a request 200 puts the returned question at the tail of the buffer,
\* once, keeps the entries already there in their order and drops only the
\* oldest, and only when the buffer was full; every other step - a request
\* arriving, a request failing, a response being delivered - leaves the
\* buffer as it is; the buffer never holds more than 5 entries.
C23_RacesAreBenign ==
    /\ [](Len(recentFirstQuestions) <= RECENT_QUESTIONS_MAX)
    /\ [][ \A r \in Slots :
             StartCompletes(r) =>
                 /\ recentFirstQuestions' =
                        (IF Len(recentFirstQuestions) = RECENT_QUESTIONS_MAX
                         THEN Tail(recentFirstQuestions)
                         ELSE recentFirstQuestions)
                        \o <<req'[r].response.question>>
                 /\ req'[r].response.question = req'[r].replies[1] ]_vars
    /\ [][ (\A r \in Slots : ~StartCompletes(r)) =>
               recentFirstQuestions' = recentFirstQuestions ]_vars

\* a request whose opening message was built from the empty buffer is
\* answered after the other request has recorded its question, and both
\* questions are in the buffer
C23_Witness ==
    /\ Start200(1)
    /\ req[1].calls[1].messages = <<buildOpeningMessage(<<>>)>>
    /\ req[2].pc = "done"
    /\ recentFirstQuestions = <<"o2", "o1">>
    /\ req[1].response.question = "o1"

\* C24: a request that awaits a model call is eventually answered, given that
\* every model call eventually resolves or rejects; a response is sent only
\* by a step that ends the handler, so never twice and never while a call of
\* the request is outstanding; an answered request has status 200 or 500 and
\* no call pending, and a request not yet answered has sent nothing.
C24_ExactlyOneResponse ==
    /\ (Awaiting(1) ~> Done(1))
    /\ [](IF Done(1)
          THEN /\ req[1].response.status \in {200, 500}
               /\ req[1].pending = NoCall
               /\ Len(req[1].calls) = Resolved(1) + Failed(1)
          ELSE req[1].response = NoResponse)
    /\ [][ /\ Done(1) => req'[1] = IdleReq
           /\ req'[1].response # req[1].response =>
                  \/ ~Done(1) /\ req'[1].pc = "done"
                  \/ req'[1] = IdleReq ]_vars

\* a final-round request has been answered 200 after an earlier /api/start
C24_Witness ==
    /\ Final200(1)
    /\ Len(recorded) = 1
    /\ Len(req[1].calls) = 6

\* the provider configured for the role: the setting, or the documented
\* default when there is none
ConfiguredProvider(role) ==
    IF llm.env[role].provider.set THEN llm.env[role].provider.text ELSE DefaultProvider

\* the temperature configured for the role: the setting, or the documented
\* default when there is none
ConfiguredTemperature(role) ==
    IF llm.env[role].temperature.set THEN llm.env[role].temperature.value
    ELSE DefaultTemperature

\* C25: a call of chat with a role that is not configured throws the
\* "Unknown role" error, a call with a role whose configured provider is not
\* mock, openai or anthropic throws the "Unknown LLM provider" error, and in
\* both cases no backend is invoked.
C25_MisconfigurationFailsFast ==
    llm.pc = "called" =>
        /\ llm.role \notin Roles =>
               /\ llm.outcome.error = "Unknown role"
               /\ llm.outcome.backend = "none"
        /\ (llm.role \in Roles /\ ConfiguredProvider(llm.role) \notin Providers) =>
               /\ llm.outcome.error = "Unknown LLM provider"
               /\ llm.outcome.backend = "none"

\* C26: whatever temperature from 0 to 2.0 is configured for the role, the
\* Anthropic backend puts min(configured temperature, 1.0) in its request and
\* the OpenAI backend puts the configured temperature in its request.
C26_TemperatureHandling ==
    (llm.pc = "called" /\ llm.role \in Roles) =>
        /\ llm.outcome.backend = "anthropic" =>
               llm.outcome.sent = Min(ConfiguredTemperature(llm.role), AnthropicCap)
        /\ llm.outcome.backend = "openai" =>
               llm.outcome.sent = ConfiguredTemperature(llm.role)

\* the JSON document wrapped in a code fence: tagged json or untagged, with
\* or without the newlines around the document and after the closing fence
FencedForms(atom) ==
    { <<BT, BT, BT, "jso", "n", NL, atom, NL, BT, BT, BT>>,
      <<BT, BT, BT, "jso", "n", NL, atom, NL, BT, BT, BT, NL>>,
      <<BT, BT, BT, "jso", "n", atom, BT, BT, BT>>,
      <<BT, BT, BT, NL, atom, NL, BT, BT, BT>>,
      <<BT, BT, BT, NL, atom, NL, BT, BT, BT, NL>>,
      <<BT, BT, BT, atom, BT, BT, BT>> }

\* C27: a JSON document wrapped in a code fence, tagged json or untagged, is
\* parsed to the same verdict as the document alone and does not trigger the
\* fallback - for every document, every such wrapping and either label (a
\* statement about the parsing alone, evaluated where no request is in
\* progress) - and a completion whose verdict reply is a fenced document
\* returns the verdict of that document.
C27_FenceStrippingPreservesVerdict ==
    /\ Free(1) =>
           \A atom \in JsonAtoms, label \in Labels :
               \A fenced \in FencedForms(atom) :
                   /\ Parses(Cleaned(fenced))
                   /\ ParseVerdict(fenced, label) = ParseVerdict(<<atom>>, label)
                   /\ ParseVerdict(fenced, label) = JsonValue(atom)
    /\ Final200(1) =>
           \A atom \in JsonAtoms :
               req[1].verdictRaw \in FencedForms(atom) =>
                   req[1].response.verdict = ParseVerdict(<<atom>>, req[1].humanLabel)

\* a completion whose verdict reply is a document in an untagged fence
C27_Witness ==
    /\ Final200(1)
    /\ req[1].verdictRaw = <<BT, BT, BT, NL, "{B}", NL, BT, BT, BT>>
    /\ req[1].response.verdict = VerdictObject("B")
    /\ req[1].humanLabel = "A"

\* the conversation that presents these rounds to the judge: the begin turn,
\* then for each round in order its question as an assistant turn and its
\* answer as a user turn
Conversation(rounds) ==
    [j \in 1..(2 * Len(rounds) + 1) |->
        IF j = 1 THEN BeginMsg
        ELSE IF j % 2 = 0 THEN QuestionMsg(rounds[j \div 2].question)
        ELSE AnswerMsg(rounds[(j - 1) \div 2].answer)]

\* user and assistant turns alternate, from a user turn to a user turn
Alternates(messages) ==
    /\ Len(messages) % 2 = 1
    /\ \A j \in 1..Len(messages) :
           messages[j].role = (IF j % 2 = 1 THEN "user" ELSE "assistant")

\* C28: every message list sent to the judge for a next question starts with
\* the begin turn, alternates user and assistant turns, holds every earlier
\* round of the same respondent in order, question then answer, and ends with
\* the user turn of the most recent answer.  For the advance branch the
\* rounds are the request's history with the answer attached, provided only
\* the last entry arrived unanswered; for the AI interview they are the
\* rounds of the AI transcript completed when the call is made.
C28_JudgeConversationWellFormed ==
    req[1].route = "answer" =>
        \A k \in 1..Len(req[1].calls) :
            (req[1].calls[k].role = "judge" /\ req[1].calls[k].prompt = "interview") =>
                LET messages == req[1].calls[k].messages
                    rounds == IF FinalBranch(1)
                              THEN SubSeq(req[1].transcript, 1, k \div 2)
                              ELSE req[1].history
                IN  (FinalBranch(1) \/ InFlight(req[1].body.history)) =>
                        /\ messages = Conversation(rounds)
                        /\ messages[1] = BeginMsg
                        /\ Alternates(messages)
                        /\ messages[Len(messages)] = AnswerMsg(rounds[Len(rounds)].answer)
                        /\ Len(rounds) >= 1

\* the next-question call for a history of three rounds of which only the
\* last arrived unanswered
C28_Witness ==
    /\ Advance200(1)
    /\ InFlight(req[1].body.history)
    /\ Len(req[1].body.history) = 3
    /\ Len(req[1].calls[1].messages) = 7
    /\ req[1].calls[1].messages[7] = AnswerMsg("h2")

\* the block of a transcript in the verdict prompt: for each round in order
\* its number, its question, the label and its answer
Block(label, transcript) ==
    [j \in 1..(4 * Len(transcript)) |->
        LET k == ((j - 1) \div 4) + 1
            field == (j - 1) % 4
        IN  CASE field = 0 -> QLabel[k]
              [] field = 1 -> transcript[k].question
              [] field = 2 -> label
              [] field = 3 -> transcript[k].answer]

\* C29: once the verdict call of a completion has been issued, its one
\* message holds block A and then block B; the block under the human's label
\* is the human's transcript and the block under the other label is the AI's
\* transcript, each once; and the response returns that same label as
\* humanLabel with the same two transcripts.
C29_LabelsMatchTranscripts ==
    (FinalBranch(1) /\ Len(req[1].calls) = Len(Chain)) =>
        LET prompt == req[1].calls[Len(Chain)].messages
            label == req[1].humanLabel
            humanBlock == Block(label, req[1].history)
            aiBlock == Block(Other(label), req[1].transcript)
        IN  /\ label \in Labels
            /\ Len(prompt) = 1
            /\ prompt[1].body =
                   <<"--- Respondent A ---">>
                   \o (IF label = "A" THEN humanBlock ELSE aiBlock)
                   \o <<"--- Respondent B ---">>
                   \o (IF label = "A" THEN aiBlock ELSE humanBlock)
            /\ Final200(1) =>
                   /\ req[1].response.humanLabel = label
                   /\ req[1].response.humanTranscript = req[1].history
                   /\ req[1].response.aiTranscript = req[1].transcript
                   /\ AnswerAttached(req[1].body.history,
                                     req[1].response.humanTranscript,
                                     req[1].body.humanAnswer)

\* a completion with the human labelled A and a two-round human transcript
C29_Witness ==
    /\ Final200(1)
    /\ req[1].response.humanLabel = "A"
    /\ Len(req[1].response.humanTranscript) = 2
    /\ Len(req[1].calls[6].messages[1].body) = 22
    /\ req[1].calls[6].messages[1].body[4] = "A"
    /\ req[1].calls[6].messages[1].body[5] = "h1"

\* round j of the AI interview as determined by the first question and the
\* model replies (answer, question, answer, question, answer)
InterviewRound(j, firstQuestion, replies) ==
    Round(IF j = 1 THEN firstQuestion ELSE replies[2 * j - 2], replies[2 * j - 1])

\* call k of the AI interview as determined by the first question and the
\* replies to the calls before it
InterviewCall(k, firstQuestion, replies) ==
    IF k % 2 = 1
    THEN Call("respondent", "respondent",
              <<AskMsg(IF k = 1 THEN firstQuestion ELSE replies[k - 1])>>)
    ELSE Call("judge", "interview",
              Conversation([j \in 1..(k \div 2) |->
                               InterviewRound(j, firstQuestion, replies)]))

\* C30: in a final-round request every call of the AI interview, and the AI
\* transcript, are a function of the first question of the history and of
\* the model replies alone - so two requests with the same first question
\* and the same replies make the same calls and get the same aiTranscript
\* whatever their answers, later questions and round - and the human's
\* answer of the request is in no call before the verdict call.
C30_InterviewDependsOnFirstQuestionOnly ==
    FinalBranch(1) =>
        LET firstQuestion == req[1].body.history[1].question
            replies == req[1].replies
        IN  /\ \A k \in 1..Min(Len(req[1].calls), 2 * InterviewRounds - 1) :
                   /\ req[1].calls[k] = InterviewCall(k, firstQuestion, replies)
                   /\ \A m \in 1..Len(req[1].calls[k].messages) :
                          req[1].body.humanAnswer
                              \notin Range(req[1].calls[k].messages[m].body)
            /\ req[1].transcript =
                   [j \in 1..((Len(replies) + 1) \div 2) |->
                       InterviewRound(j, firstQuestion, replies)]
            /\ Final200(1) =>
                   req[1].response.aiTranscript =
                       [j \in 1..InterviewRounds |->
                           InterviewRound(j, firstQuestion, replies)]

\* a completion whose human transcript has other later questions than the AI
\* interview, answers in every round, and round 4
C30_Witness ==
    /\ Final200(1)
    /\ req[1].body.round = 4
    /\ req[1].body.history = <<Round("q1", "h1"), Round("q1", "h1"), Round("q2", Absent)>>
    /\ req[1].replies = <<"r1", "q2", "r1", "q2", "r1">>

\* the client shows a question and the form takes the player's answer
WaitsForPlayer ==
    /\ client.screen = "game"
    /\ ~client.formDisabled
    /\ client.waiting = "none"

C32_CompletionEndsGame ==
    client.completionReceived => client.screen = "verdict"

\* C33: on the verdict screen the client reports "Subject passed." exactly
\* when the humanIs of the verdict it was given differs from the humanLabel
\* it was given, and "Subject identified as biological." exactly when they
\* are equal; and a completion whose verdict reply did not parse, so that the
\* fallback verdict is returned, is reported as identified.
C33_OutcomeShown ==
    /\ client.screen = "verdict" =>
           /\ client.result \in {"passed", "identified"}
           /\ client.result = "passed" <=> client.shownVerdict.humanIs # client.humanLabel
           /\ client.result = "identified" <=> client.shownVerdict.humanIs = client.humanLabel
    /\ (client.waiting = "answer" /\ Final200(1)
        /\ ~Parses(Cleaned(req[1].verdictRaw))) =>
           /\ req[1].response.verdict = FallbackVerdict(req[1].humanLabel, req[1].verdictRaw)
           /\ submitAnswerDone(client, req[1].response).screen = "verdict"
           /\ submitAnswerDone(client, req[1].response).result = "identified"

\* the fallback verdict of a reply with prose around the document is shown
\* to a human labelled B, as identified
C33_Witness ==
    /\ client.screen = "verdict"
    /\ client.shownVerdict = FallbackVerdict("B", <<"x", SP, "{A}">>)
    /\ client.humanLabel = "B"
    /\ client.result = "identified"

\* the request in slot r is an /api/answer whose history is empty or absent
NoHistory(r) ==
    /\ req[r].route = "answer"
    /\ (~req[r].body.historyPresent \/ req[r].body.history = <<>>)

\* C34: an /api/answer request whose history is empty or absent is answered
\* at once with status 500 and the generic message, for every round value; it
\* issues no model call, and the step that handles it leaves the
\* recent-questions buffer as it was.
C34_NoHistoryIsRejected ==
    /\ [](NoHistory(1) =>
            /\ Done(1)
            /\ req[1].response = ErrorResponse(AnswerError)
            /\ req[1].response.keys = {"error"}
            /\ req[1].calls = <<>>
            /\ req[1].replies = <<>>
            /\ req[1].pending = NoCall
            /\ req[1].failed = NoCall)
    /\ [][ (NoHistory(1))' /\ ~NoHistory(1) =>
               /\ recentFirstQuestions' = recentFirstQuestions
               /\ recorded' = recorded ]_vars

\* a final-round request without a history key is answered 500 while the
\* buffer holds two questions
C34_Witness ==
    /\ NoHistory(1) /\ Done(1)
    /\ ~req[1].body.historyPresent
    /\ req[1].body.round = 3
    /\ req[1].response.status = 500
    /\ Len(recentFirstQuestions) = 2

====
